---- MODULE Spec2Model ----
(***************************************************************************)
(* Model of the message-thread timeline of michaelfromorg/reeply:          *)
(*   src/message-threads/src/components/ThreadVisualization.tsx            *)
(*   src/unnamed/part_001 (lib/api: getThreads)                            *)
(*   src/message-threads/src/App.tsx                                       *)
(* The component pages threads from a backend with useInfiniteQuery,       *)
(* flattens the pages, derives the timeline range, and renders a           *)
(* virtualized grid with a date indicator.                                 *)
(*                                                                         *)
(* src/unnamed/part_000 holds an earlier revision of the same component    *)
(* (a ColumnVirtualizer per row, a row overscan of 10) with the same       *)
(* paging, range, cell and indicator logic; the model follows              *)
(* ThreadVisualization.tsx.                                                *)
(*                                                                         *)
(* Dates are milliseconds since an epoch that lies on a UTC midnight; a    *)
(* date string of the backend is represented by the time it parses to.     *)
(***************************************************************************)
EXTENDS Integers, Sequences, FiniteSets, TLC

\* ---------------------------------------------------------------- constants
THREAD_LIMIT == 50
DAY_CELL_WIDTH == 20
ONE_DAY == 24 * 60 * 60 * 1000
\* useVirtualizer options of the row virtualizer / the column virtualizer
ROW_SIZE == 60
OVERSCAN == 5
\* width of the sticky address column plus its padding
LABEL_WIDTH == 220

\* ------------------------------------------------------------------- bounds
\* backends of the paging specification hold up to MaxPages full pages plus a rest
MaxPages == 2
\* getThreads calls in one behaviour
MaxRequests == 4
\* clock ticks in one behaviour
MaxTicks == 1
\* the user scrolls vertically in steps of ScrollStep px, horizontally of HScrollStep px
ScrollStep == 1500
HScrollStep == 50
\* threads of a backend of the view specification
MaxSmallThreads == 2
\* repetitions of one message date in a thread of the view specification
MaxRepeat == 5

VARIABLES
    backend,         \* the threads the endpoint serves, in its order
    mounted,         \* the component's effects have run
    now,             \* the wall clock
    pages,           \* data.pages of the infinite query (<<>>: data is undefined)
    inFlight,        \* getThreads calls that have not settled
    requests,        \* the offsets getThreads was called with, in call order
    errors,          \* number of getThreads calls that threw
    failed,          \* the calls (by position in requests) that threw
    minDate,         \* memoized timeline start
    maxDate,         \* memoized timeline end
    scrollTop,       \* scroll container geometry
    scrollLeft,
    clientWidth,
    clientHeight,
    visibleRange,    \* DateIndicator state
    listenerMinDate  \* minDate captured by the registered onScroll (<<>>: none)

vars == << backend, mounted, now, pages, inFlight, requests, errors, failed, minDate,
           maxDate, scrollTop, scrollLeft, clientWidth, clientHeight, visibleRange,
           listenerMinDate >>

\* ------------------------------------------------------------------ helpers
Min2(a, b) == IF a < b THEN a ELSE b
Max2(a, b) == IF a > b THEN a ELSE b
\* Math.floor(a / b) and Math.ceil(a / b) for b > 0
Floor(a, b) == a \div b
Ceil(a, b) == -((-a) \div b)
Last(s) == s[Len(s)]

\* new Date(t).toISOString().split("T")[0]: the UTC calendar day of t, as the number
\* of the day since the epoch (the ISO date text is one-to-one with it)
DateKey(t) == t \div ONE_DAY

\* ---------------------------------------------------------------- the data
Message(t) == [date |-> t, type |-> 0]
Thread(a, f, l, ms) ==
    [address |-> a, messages |-> ms, first_message |-> f, last_message |-> l]

\* The sample timestamps of the view specification: late on day 0, midnight of
\* day 1, noon of day 2.
Times == { ONE_DAY - 1, ONE_DAY, 2 * ONE_DAY + ONE_DAY \div 2 }

Rep(x, k) == [i \in 1..k |-> x]

\* The message lists a sample thread with the given first/last dates may carry:
\* many on the day of the last date and one on the first, or one between the two
\* dates and one a day past the last.
MessageLists(f, l) ==
    { Rep(Message(l), MaxRepeat) \o << Message(f) >>,
      << Message((f + l) \div 2), Message(l + ONE_DAY) >> }

\* A sample thread is its dates and messages; its address is its place in the
\* backend. One sample has no message at all.
SampleShapes ==
    UNION { { [f |-> f, l |-> l, ms |-> ms] : ms \in MessageLists(f, l) } :
            <<f, l>> \in Times \X Times }
    \cup { [f |-> ONE_DAY, l |-> ONE_DAY, ms |-> <<>>] }

SmallBackends ==
    UNION { { [i \in 1..n |-> Thread(i, sh[i].f, sh[i].l, sh[i].ms)] :
              sh \in [1..n -> SampleShapes] } : n \in 0..MaxSmallThreads }

\* Thread i of a large backend. In dataset 1 every page starts a day earlier than
\* the one before and ends later; in dataset 2 all threads share one day.
BigThread(i, k) ==
    LET pg == (i - 1) \div THREAD_LIMIT
        f == IF k = 1 THEN (MaxPages + 1 - pg) * ONE_DAY + (i % 2) * (ONE_DAY \div 2)
                      ELSE ONE_DAY + 1
        l == IF k = 1 THEN f + (i % 3) * ONE_DAY + pg * ONE_DAY ELSE f
    IN Thread(i, f, l, IF i % 2 = 0 THEN << Message(f) >>
                                    ELSE << Message(f), Message(l), Message(l) >>)

BigSizes ==
    { p * THREAD_LIMIT + r : p \in 0..MaxPages, r \in {0, 1, THREAD_LIMIT - 1} }

BigBackends ==
    { [i \in 1..n |-> BigThread(i, k)] : n \in BigSizes, k \in 1..2 }

\* ------------------------------------------------------ lib/api: getThreads
\* GET /threads?offset=o&limit=n: the endpoint's slice of its threads
BackendPage(b, offset, limit) ==
    LET hi == Min2(Len(b), offset + limit)
    IN IF offset >= Len(b) THEN <<>> ELSE [i \in 1..(hi - offset) |-> b[offset + i]]

\* --------------------------------------------------------- useInfiniteQuery
\* <<>> stands for undefined, <<p>> for the page param p
getNextPageParamSkip(lastPage, allPages) ==
    IF Len(lastPage) < THREAD_LIMIT THEN <<>>
    ELSE << (Len(allPages) + 1) * THREAD_LIMIT >>

getNextPageParamStrict(lastPage, allPages) ==
    IF Len(lastPage) <= THREAD_LIMIT THEN <<>> ELSE << Len(allPages) * THREAD_LIMIT >>

getNextPageParam(lastPage, allPages) ==
    IF Len(lastPage) < THREAD_LIMIT THEN <<>> ELSE << Len(allPages) * THREAD_LIMIT >>

NextPageParamOf(ps) == IF ps = <<>> THEN <<>> ELSE getNextPageParam(Last(ps), ps)

hasNextPage == NextPageParamOf(pages) # <<>>
isFetchingNextPage == \E r \in inFlight : r.kind = "next"

RECURSIVE FlatReversed(_)
FlatReversed(ps) ==
    IF ps = <<>> THEN <<>> ELSE Last(ps) \o FlatReversed(SubSeq(ps, 1, Len(ps) - 1))

\* data?.pages.flat() || []
RECURSIVE Flat(_)
Flat(ps) == IF ps = <<>> THEN <<>> ELSE Flat(SubSeq(ps, 1, Len(ps) - 1)) \o Last(ps)

threads == Flat(pages)

\* --------------------------------------------------- timeline range (useMemo)
RangeStepFirstOnly(acc, thread) ==
    LET first == thread.first_message
    IN [minTime |-> IF acc.minTime = <<>> \/ first < acc.minTime[1]
                    THEN << first >> ELSE acc.minTime,
        maxTime |-> IF acc.maxTime = <<>> \/ first > acc.maxTime[1]
                    THEN << first >> ELSE acc.maxTime]

\* One iteration of the forEach over the threads, on the running
\* [minTime, maxTime]; <<>> stands for +/-Infinity.
RangeStep(acc, thread) ==
    LET first == thread.first_message
        last == thread.last_message
    IN [minTime |-> IF acc.minTime = <<>> \/ first < acc.minTime[1]
                    THEN << first >> ELSE acc.minTime,
        maxTime |-> IF acc.maxTime = <<>> \/ last > acc.maxTime[1]
                    THEN << last >> ELSE acc.maxTime]

\* threads.forEach over ths[lo..hi], in order. The range is split in two and the
\* result of the first half is a value before the second half starts, so that the
\* evaluation stays shallow; the iterations and their order are the loop's.
RECURSIVE RangeLoop(_, _, _, _)
RangeLoop(ths, lo, hi, acc) ==
    IF lo > hi THEN acc
    ELSE IF lo = hi THEN RangeStep(acc, ths[lo])
    ELSE LET mid == (lo + hi) \div 2
         IN CHOOSE r \in { RangeLoop(ths, mid + 1, hi, done) :
                           done \in { RangeLoop(ths, lo, mid, acc) } } : TRUE

TimelineRange(ths, nw) ==
    IF Len(ths) = 0 THEN [minDate |-> nw, maxDate |-> nw]
    ELSE LET r == RangeLoop(ths, 1, Len(ths), [minTime |-> <<>>, maxTime |-> <<>>])
         IN [minDate |-> r.minTime[1], maxDate |-> r.maxTime[1]]

DaysCountFloor(mn, mx) == Floor(mx - mn, ONE_DAY) + 1

DaysCount(mn, mx) == Ceil(mx - mn, ONE_DAY) + 1
daysCount == DaysCount(minDate, maxDate)

\* ------------------------------------------------------------ useVirtualizer
\* The indexes getVirtualItems() yields for `count` items of `size` px in a
\* viewport of `outer` px scrolled to `offset`: the items that intersect the
\* viewport, widened by the overscan and clipped to the list.
VirtualItems(count, size, offset, outer, overscan) ==
    IF count <= 0 THEN <<>>
    ELSE LET startIndex == Min2(count - 1, Floor(offset, size))
             endIndex == Max2(startIndex, Min2(count - 1, Ceil(offset + outer, size) - 1))
             s == Max2(startIndex - overscan, 0)
             e == Min2(endIndex + overscan, count - 1)
         IN [k \in 1..(e - s + 1) |-> s + k - 1]

rowItems(ths, top, height) == VirtualItems(Len(ths), ROW_SIZE, top, height, OVERSCAN)
columnItems(days, left, width) == VirtualItems(days, DAY_CELL_WIDTH, left, width, OVERSCAN)

\* ------------------------------------------------------------ row rendering
\* getMessageCountByDay: the counts object, as a function on the day keys seen
RECURSIVE CountLoop(_, _, _)
CountLoop(msgs, i, counts) ==
    IF i > Len(msgs) THEN counts
    ELSE LET day == DateKey(msgs[i].date)
             old == IF day \in DOMAIN counts THEN counts[day] ELSE 0
         IN CountLoop(msgs, i + 1,
                      [d \in DOMAIN counts \cup {day} |->
                          IF d = day THEN old + 1 ELSE counts[d]])

getMessageCountByDay(thread) == CountLoop(thread.messages, 1, <<>>)

DayCellUncapped(thread, mn, dayIndex) ==
    LET messageCounts == getMessageCountByDay(thread)
        dateKey == DateKey(mn + dayIndex * ONE_DAY)
        count == IF dateKey \in DOMAIN messageCounts THEN messageCounts[dateKey] ELSE 0
    IN IF count > 0 THEN count * 3 ELSE 0

\* the day cell of column dayIndex: the dot's diameter, 0 when no dot is drawn
DayCell(thread, mn, dayIndex) ==
    LET messageCounts == getMessageCountByDay(thread)
        dateKey == DateKey(mn + dayIndex * ONE_DAY)
        count == IF dateKey \in DOMAIN messageCounts THEN messageCounts[dateKey] ELSE 0
    IN IF count > 0 THEN Min2(12, count * 3) ELSE 0

\* ------------------------------------------------------------ DateIndicator
onScroll(mn, left, width) ==
    LET startIndex == Floor(left, DAY_CELL_WIDTH)
        endIndex == Floor(left + width, DAY_CELL_WIDTH)
    IN [start |-> mn + startIndex * ONE_DAY, end |-> mn + endIndex * ONE_DAY]

\* --------------------------------------------------------- scroll container
\* rowVirtualizer.getTotalSize() and 220 + horizontalVirtualizer.getTotalSize()
TotalHeight(ths) == Len(ths) * ROW_SIZE
TotalWidth(days) == LABEL_WIDTH + Max2(days, 0) * DAY_CELL_WIDTH
MaxTop(ths, h) == Max2(0, TotalHeight(ths) - h)
MaxLeft(days, w) == Max2(0, TotalWidth(days) - w)

\* The sizes the window takes: a viewport of five rows or of fifty-five, and
\* widths narrower than the narrowest timeline. WideWidth holds every timeline of
\* the paging specification without a horizontal scroll bar.
Widths == {200, 250}
Heights == {300, 3300}
WideWidth == 360
Now0 == 3 * ONE_DAY + 77

\* ------------------------------------------------------- the fetch-more effect
ShouldFetchAnywhere(virtualItems, len, hasNext, isFetching) ==
    Len(virtualItems) # 0 /\ hasNext /\ ~isFetching

ShouldFetchWhileFetching(virtualItems, len, hasNext, isFetching) ==
    Len(virtualItems) # 0 /\ Last(virtualItems) >= len - 1 /\ hasNext

ShouldFetchPastEnd(virtualItems, len, hasNext, isFetching) ==
    Len(virtualItems) # 0 /\ Last(virtualItems) >= len /\ hasNext /\ ~isFetching

\* the condition under which the effect calls fetchNextPage()
ShouldFetchNextPage(virtualItems, len, hasNext, isFetching) ==
    /\ Len(virtualItems) # 0
    /\ Last(virtualItems) >= len - 1
    /\ hasNext
    /\ ~isFetching

DateEffectNever(dataChanged) == FALSE

\* whether DateIndicator's effect runs again after a render: its dependency minDate
\* is a new Date object whenever the threads changed
DateEffectRuns(dataChanged) == dataChanged

\* One commit of the component: the browser clamps the scroll position to the new
\* content, the memos are recomputed when the data changed, DateIndicator's effect
\* and the scroll listener run, and the fetch-more effect runs on what was rendered.
\*   ps, inF, reqs: the query's pages, unsettled calls and call log before the effect
\*   top, left, w, h: the geometry the event asks for
\*   dataChanged: `data` is a new object; mounting: the first run of the effects;
\*   scrolled: the event is a scroll event
\* (each intermediate result is bound once, as the one element of a set)
Commit(ps, inF, reqs, top, left, w, h, dataChanged, mounting, scrolled) ==
    \E ths \in { Flat(ps) } :
    \E range \in { IF dataChanged THEN TimelineRange(ths, now)
                   ELSE [minDate |-> minDate, maxDate |-> maxDate] } :
    \E days \in { DaysCount(range.minDate, range.maxDate) } :
    \E top2 \in { Min2(top, MaxTop(ths, h)) } :
    \E left2 \in { Min2(left, MaxLeft(days, w)) } :
    \E param \in { NextPageParamOf(ps) } :
    \E fetchMore \in { ShouldFetchNextPage(rowItems(ths, top2, h), Len(ths),
                                           param # <<>>,
                                           \E r \in inF : r.kind = "next") } :
        LET scrollEvent == scrolled \/ top2 # scrollTop \/ left2 # scrollLeft
            effectRuns == mounting \/ DateEffectRuns(dataChanged)
            listener == IF effectRuns THEN << range.minDate >> ELSE listenerMinDate
        IN /\ fetchMore => Len(reqs) < MaxRequests
           /\ pages' = ps
           /\ minDate' = range.minDate
           /\ maxDate' = range.maxDate
           /\ scrollTop' = top2
           /\ scrollLeft' = left2
           /\ clientWidth' = w
           /\ clientHeight' = h
           /\ listenerMinDate' = listener
           /\ visibleRange' = IF (effectRuns \/ scrollEvent) /\ listener # <<>>
                              THEN onScroll(listener[1], left2, w)
                              ELSE visibleRange
           /\ IF fetchMore
              THEN /\ requests' = Append(reqs, param[1])
                   /\ inFlight' = inF \cup { [id |-> Len(reqs) + 1,
                                              offset |-> param[1], kind |-> "next"] }
              ELSE /\ requests' = reqs
                   /\ inFlight' = inF

\* ------------------------------------------------------------------ actions
\* The first render has happened: no data, the range is [now, now].
InitView ==
    /\ mounted = FALSE
    /\ now = Now0
    /\ pages = <<>>
    /\ inFlight = {}
    /\ requests = <<>>
    /\ errors = 0
    /\ failed = {}
    /\ minDate = now
    /\ maxDate = now
    /\ scrollTop = 0
    /\ scrollLeft = 0
    /\ visibleRange = [start |-> minDate, end |-> minDate]
    /\ listenerMinDate = <<>>

\* The paging specification: large backends, a window that is only scrolled and
\* resized vertically.
Init ==
    /\ backend \in BigBackends
    /\ clientWidth = WideWidth
    /\ clientHeight \in Heights
    /\ InitView

\* The effects of the first render run, and the query fetches its initial page.
Mount ==
    /\ ~mounted
    /\ mounted' = TRUE
    /\ Commit(pages, { [id |-> 1, offset |-> 0, kind |-> "initial"] }, << 0 >>,
              scrollTop, scrollLeft, clientWidth, clientHeight, FALSE, TRUE, FALSE)
    /\ UNCHANGED << backend, now, errors, failed >>

\* getThreads resolves: the page is added to the end of data.pages.
FetchSuccess ==
    \E r \in inFlight :
        /\ Commit(Append(pages, BackendPage(backend, r.offset, THREAD_LIMIT)),
                  inFlight \ {r}, requests,
                  scrollTop, scrollLeft, clientWidth, clientHeight, TRUE, FALSE, FALSE)
        /\ UNCHANGED << backend, mounted, now, errors, failed >>

\* data.pages after a getThreads call threw: no page was returned, data is kept.
PagesAfterErrorEmptyPage(ps) == Append(ps, <<>>)
PagesAfterError(ps) == ps

\* getThreads throws (response not ok, or the body does not parse): data is kept.
FetchFail ==
    \E r \in inFlight :
        /\ errors' = errors + 1
        /\ failed' = failed \cup { r.id }
        /\ Commit(PagesAfterError(pages), inFlight \ {r}, requests,
                  scrollTop, scrollLeft, clientWidth, clientHeight, FALSE, FALSE, FALSE)
        /\ UNCHANGED << backend, mounted, now >>

TopChoices ==
    LET m == MaxTop(threads, clientHeight)
    IN { k * ScrollStep : k \in 0..(m \div ScrollStep) } \cup {m}

LeftChoices ==
    LET m == MaxLeft(daysCount, clientWidth)
    IN { k * HScrollStep : k \in 0..(m \div HScrollStep) } \cup {m}

\* The user scrolls the container to (t, l).
ScrollTo(t, l) ==
    /\ mounted
    /\ << t, l >> # << scrollTop, scrollLeft >>
    /\ Commit(pages, inFlight, requests, t, l, clientWidth, clientHeight,
              FALSE, FALSE, TRUE)
    /\ UNCHANGED << backend, mounted, now, errors, failed >>

Scroll == \E t \in TopChoices, l \in LeftChoices : ScrollTo(t, l)

\* The user scrolls to the end of the loaded list.
ScrollToEnd == ScrollTo(MaxTop(threads, clientHeight), scrollLeft)

\* The window is resized; no scroll event unless the position is clamped.
ResizeHeight ==
    /\ mounted
    /\ \E h \in Heights \ {clientHeight} :
        Commit(pages, inFlight, requests, scrollTop, scrollLeft, clientWidth, h,
               FALSE, FALSE, FALSE)
    /\ UNCHANGED << backend, mounted, now, errors, failed >>

ResizeWidth ==
    /\ mounted
    /\ \E w \in Widths \ {clientWidth} :
        Commit(pages, inFlight, requests, scrollTop, scrollLeft, w, clientHeight,
               FALSE, FALSE, FALSE)
    /\ UNCHANGED << backend, mounted, now, errors, failed >>

\* Time passes. The component reads the clock only while no thread is loaded, so
\* later readings are left out.
Tick ==
    /\ Len(threads) = 0
    /\ now < Now0 + MaxTicks * (ONE_DAY \div 2)
    /\ now' = now + ONE_DAY \div 2
    /\ UNCHANGED << backend, mounted, pages, inFlight, requests, errors, failed, minDate,
                    maxDate, scrollTop, scrollLeft, clientWidth, clientHeight,
                    visibleRange, listenerMinDate >>

Next == Mount \/ FetchSuccess \/ FetchFail \/ Scroll \/ ResizeHeight \/ Tick

Spec == Init /\ [][Next]_vars

\* The view specification: every small backend, a narrow window that is scrolled
\* and resized horizontally.
InitView2 ==
    /\ backend \in SmallBackends
    /\ clientWidth \in Widths
    /\ clientHeight = 300
    /\ InitView

NextView == Mount \/ FetchSuccess \/ Scroll \/ ResizeWidth \/ Tick

SpecView == InitView2 /\ [][NextView]_vars

\* The live specification: the paging specification with a backend that answers
\* every call with its page and a user who keeps scrolling to the end of the list.
NextLive == Mount \/ FetchSuccess \/ Scroll \/ ResizeHeight

SpecLive ==
    /\ Init
    /\ [][NextLive]_vars
    /\ WF_vars(Mount)
    /\ WF_vars(FetchSuccess)
    /\ WF_vars(ScrollToEnd)

\* =================================================================== claims
SetMin(S) == CHOOSE x \in S : \A y \in S : x <= y
SetMax(S) == CHOOSE x \in S : \A y \in S : x >= y
Range(f) == { f[i] : i \in DOMAIN f }
IsPrefix(s, t) == Len(s) <= Len(t) /\ \A i \in 1..Len(s) : s[i] = t[i]
\* a scroll event: the scroll position of the container changes
ScrollEvent == scrollTop' # scrollTop \/ scrollLeft' # scrollLeft

\* C1: every getThreads call asks for offset THREAD_LIMIT * (number of loaded
\* pages), the first for offset 0; the offsets asked for are 0, 50, 100, ... with
\* none skipped, and when no call failed they are exactly that sequence.
C1_Issue ==
    requests' # requests =>
        /\ Len(requests') = Len(requests) + 1
        /\ IsPrefix(requests, requests')
        /\ Last(requests') = THREAD_LIMIT * Len(pages')
        /\ (requests = <<>> => Last(requests') = 0)
C1_Log ==
    /\ \A i \in 1..Len(requests) : requests[i] <= THREAD_LIMIT * (i - 1)
    /\ Range(requests) = { THREAD_LIMIT * j : j \in 0..(Cardinality(Range(requests)) - 1) }
    /\ errors = 0 => \A i \in 1..Len(requests) : requests[i] = THREAD_LIMIT * (i - 1)
C1_SuccessiveOffsets == [](C1_Log) /\ [][C1_Issue]_vars
C1_Witness == requests = << 0, THREAD_LIMIT, 2 * THREAD_LIMIT >>

\* C2: the thread list is the concatenation of the loaded pages in load order (its
\* length is the sum of their lengths, page p's i-th thread sits after the threads
\* of the pages before p), and a step only ever appends to it.
RECURSIVE SumLen(_, _)
SumLen(ps, p) == IF p = 0 THEN 0 ELSE SumLen(ps, p - 1) + Len(ps[p])
C2_Flat ==
    /\ Len(threads) = SumLen(pages, Len(pages))
    /\ \A p \in 1..Len(pages) : \A i \in 1..Len(pages[p]) :
           threads[SumLen(pages, p - 1) + i] = pages[p][i]
C2_FlatConcatenation == [](C2_Flat) /\ [][IsPrefix(threads, threads')]_vars
C2_Witness == Len(pages) = 3 /\ Len(threads) = 2 * THREAD_LIMIT + 1

\* C3: hasNextPage holds exactly when the last loaded page has THREAD_LIMIT
\* threads, and once the last loaded page is shorter no step calls getThreads.
ShortPageLoaded == pages # <<>> /\ Len(Last(pages)) < THREAD_LIMIT
C3_HasNext == hasNextPage <=> (pages # <<>> /\ Len(Last(pages)) = THREAD_LIMIT)
C3_MorePagesTracked ==
    [](C3_HasNext) /\ [][ShortPageLoaded => requests' = requests]_vars
C3_Witness ==
    Len(pages) = 2 /\ pages[2] = <<>> /\ scrollTop > 0

\* C4: a step calls fetchNextPage only when, in what it renders, the virtual rows
\* are not empty, the last one's index is >= threads.length - 1, hasNextPage holds
\* and no next-page call was in flight.
NextPageIssued == mounted /\ Len(requests') = Len(requests) + 1
C4_Rendered ==
    LET items == rowItems(threads', scrollTop', clientHeight')
    IN /\ items # <<>>
       /\ Last(items) >= Len(threads') - 1
       /\ hasNextPage'
       /\ ~ \E r \in inFlight' : r.kind = "next" /\ r.id <= Len(requests)
C4_FetchOnlyNearEnd == [][NextPageIssued => C4_Rendered]_vars
C4_Witness ==
    /\ isFetchingNextPage /\ scrollTop > 0 /\ clientHeight < ROW_SIZE * THREAD_LIMIT
    /\ Len(pages) = 1

\* C5: at most one getThreads call is in flight, and no two calls in flight ask
\* for the same offset.
C5_SingleFetch ==
    /\ Cardinality(inFlight) <= 1
    /\ \A r1, r2 \in inFlight : r1.offset = r2.offset => r1 = r2
C5_Witness == isFetchingNextPage /\ errors > 0 /\ scrollTop > 0 /\ Len(pages) = 2

\* C6: with a thread loaded, minDate is the least first_message and maxDate the
\* greatest last_message of the loaded threads; the day-column count is the least
\* k with (k - 1) days >= maxDate - minDate; with no thread loaded
\* minDate = maxDate and the count is 1.
C6_TimelineRange ==
    /\ Len(threads) > 0 =>
           /\ minDate = SetMin({ threads[i].first_message : i \in 1..Len(threads) })
           /\ maxDate = SetMax({ threads[i].last_message : i \in 1..Len(threads) })
    /\ (daysCount - 1) * ONE_DAY >= maxDate - minDate
    /\ (daysCount - 2) * ONE_DAY < maxDate - minDate
    /\ Len(threads) = 0 => minDate = maxDate /\ daysCount = 1
C6_Witness ==
    /\ Len(threads) = 2
    /\ threads[2].first_message < threads[1].first_message
    /\ threads[2].last_message < threads[1].last_message
    /\ (maxDate - minDate) % ONE_DAY # 0

\* C7: in every visible cell of every visible row the dot's diameter is
\* min(12, 3 * n) when n > 0 and there is no dot when n = 0, n being the number
\* of the thread's messages whose UTC day is the UTC day of minDate + column days.
VisibleRows == Range(rowItems(threads, scrollTop, clientHeight))
VisibleColumns == Range(columnItems(daysCount, scrollLeft, clientWidth))
MessagesOnDay(thread, day) ==
    Cardinality({ j \in 1..Len(thread.messages) :
                    thread.messages[j].date \div ONE_DAY = day })
C7_DotPerDay ==
    \A row \in VisibleRows : \A col \in VisibleColumns :
        LET n == MessagesOnDay(threads[row + 1], (minDate + col * ONE_DAY) \div ONE_DAY)
            dot == DayCell(threads[row + 1], minDate, col)
        IN /\ dot > 0 <=> n > 0
           /\ n > 0 => dot = Min2(12, 3 * n)
C7_Witness ==
    \E row \in VisibleRows : \E c1, c2, c3 \in VisibleColumns :
        /\ DayCell(threads[row + 1], minDate, c1) = 12
        /\ MessagesOnDay(threads[row + 1], (minDate + c1 * ONE_DAY) \div ONE_DAY) > 4
        /\ DayCell(threads[row + 1], minDate, c2) = 3
        /\ DayCell(threads[row + 1], minDate, c3) = 0

\* C8: after every scroll event and after every change of minDate the indicator
\* shows minDate + floor(scrollLeft / 20) days to
\* minDate + floor((scrollLeft + clientWidth) / 20) days; its start is never
\* later than its end, and its start is always that of the current minDate.
ShownRange(mn, left, width) ==
    [start |-> mn + (left \div 20) * ONE_DAY, end |-> mn + ((left + width) \div 20) * ONE_DAY]
C8_Fresh ==
    (ScrollEvent \/ minDate' # minDate) =>
        visibleRange' = ShownRange(minDate', scrollLeft', clientWidth')
C8_Always ==
    /\ visibleRange.start <= visibleRange.end
    /\ visibleRange.start = ShownRange(minDate, scrollLeft, clientWidth).start
C8_DateIndicator == [](C8_Always) /\ [][C8_Fresh]_vars
C8_Witness ==
    /\ Len(threads) > 0 /\ scrollLeft > 20
    /\ visibleRange = ShownRange(minDate, scrollLeft, clientWidth)
    /\ visibleRange.start > minDate

\* C9: with a backend that answers every call and a user who keeps scrolling to
\* the end, eventually and from then on hasNextPage is false, the thread list is
\* the backend's list, and floor(N / 50) + 1 calls of getThreads were made.
PaginationComplete ==
    /\ ~hasNextPage
    /\ inFlight = {}
    /\ threads = backend
    /\ Len(requests) = Len(backend) \div THREAD_LIMIT + 1
C9_PaginationCompletes == <>[]PaginationComplete
C9_Witness ==
    /\ PaginationComplete
    /\ Len(backend) = 2 * THREAD_LIMIT
    /\ requests = << 0, THREAD_LIMIT, 2 * THREAD_LIMIT >>
    /\ Last(pages) = <<>>

\* C10: when every message of every loaded thread is dated between the thread's
\* first_message and last_message, the UTC day of every such message is the day
\* of a column in 0 .. daysCount - 1, and different columns have different days.
ColumnDay(col) == (minDate + col * ONE_DAY) \div ONE_DAY
MessageDates == UNION { { threads[i].messages[j].date : j \in 1..Len(threads[i].messages) } :
                        i \in 1..Len(threads) }
MessagesWithinThread ==
    \A i \in 1..Len(threads) : \A j \in 1..Len(threads[i].messages) :
        /\ threads[i].first_message <= threads[i].messages[j].date
        /\ threads[i].messages[j].date <= threads[i].last_message
C10_EveryMessageHasColumn ==
    MessagesWithinThread =>
        /\ \A t \in MessageDates : \E col \in 0..(daysCount - 1) : t \div ONE_DAY = ColumnDay(col)
        /\ \A c1, c2 \in 0..(daysCount - 1) : c1 # c2 => ColumnDay(c1) # ColumnDay(c2)
C10_Witness ==
    /\ MessagesWithinThread
    /\ Len(threads) = 2
    /\ minDate % ONE_DAY > maxDate % ONE_DAY
    /\ \E t \in MessageDates : t \div ONE_DAY = maxDate \div ONE_DAY /\ t > minDate + ONE_DAY

\* C11: a getThreads call that throws yields an error and adds nothing: the step
\* that settles it counts one more error and leaves the thread list, the number
\* of loaded pages and hasNextPage as they were, and the request triggered next
\* after a failed one asks for the offset the failed one asked for.
C11_FailureStep ==
    failed' # failed =>
        /\ errors' = errors + 1
        /\ threads' = threads
        /\ Len(pages') = Len(pages)
        /\ hasNextPage' = hasNextPage
C11_NextRequestRepeats ==
    \A i \in failed : i < Len(requests) => requests[i + 1] = requests[i]
C11_FailedFetchAddsNothing == [](C11_NextRequestRepeats) /\ [][C11_FailureStep]_vars
C11_Witness ==
    /\ errors > 0
    /\ Len(pages) = 1
    /\ hasNextPage
    /\ \E i \in failed : i < Len(requests) /\ requests[i] = THREAD_LIMIT
                                           /\ requests[i + 1] = THREAD_LIMIT

====
